---- MODULE Spec2Model ----
(***************************************************************************)
(* Model of pyplico's PacketReader (src/src/pyplico/packetReader.py).      *)
(*                                                                         *)
(* A capture is a sequence of pcap records.  A record is abstracted to the *)
(* outcome dpkt.ethernet.Ethernet() has on it ("ip": eth.data is an IP     *)
(* packet, "nonip": it decodes but eth.data is no IP packet, "bad": the    *)
(* decode raises dpkt.UnpackError) and to its timestamp.  The decoded IP   *)
(* packet of record i is identified by i, so a list element (ip,timestamp) *)
(* is the tuple <<i, capture[i].ts>>.                                      *)
(***************************************************************************)
EXTENDS Integers, Sequences, FiniteSets, TLC

VARIABLES
    pc,         \* position of the constructor / life cycle of the object
    args,       \* the constructor's arguments (self.file, self.to_itr, ...)
    exc,        \* exception raised by the constructor, "none" if none
    fstate,     \* the file object f: "unopened", "open", "closed"
    capture,    \* content of the opened file: the sequence of records
    fault,      \* where and how the underlying reader has failed, if it has
    rpos,       \* number of records the dpkt reader has delivered
    hasItr,     \* attribute self.packets_itr exists
    gen,        \* generator of read_itr: "none", "created", "suspended",
                \* "finished" (its body has ended), "closed" (the consumer
                \* ended it; Python shows both as a finished generator)
    yielded,    \* the elements the generator has yielded so far
    lastNext,   \* what the last next() on the generator gave the consumer
    hasPackets, \* attribute self.packets exists
    packets,    \* self.packets
    total,      \* local counter total of read_packets
    skipped,    \* local counter skipped of read_packets
    out,        \* lines printed to stdout
    ft,         \* self.ft: whether a FlowTable exists, the pushes it got (the
                \* packets and the header fields push read in them) and its
                \* flow records
    lastGet     \* what the last get_itr() call gave the caller

vars == <<pc, args, exc, fstate, capture, fault, rpos, hasItr, gen, yielded,
          lastNext, hasPackets, packets, total, skipped, out, ft, lastGet>>

----------------------------------------------------------------------------
(* Bounds *)

MaxLen == 3
MaxTs == 2
MaxPush == 2

----------------------------------------------------------------------------
(* Inputs *)

None == "None"

FileArgs == {None, "", "dns.cap"}
InterfaceArgs == {None, "", "eth0"}

Args == [file: FileArgs, interface: InterfaceArgs, to_itr: BOOLEAN,
         to_list: BOOLEAN, to_ft: BOOLEAN, sort: BOOLEAN, verbose: BOOLEAN]

\* Python truthiness of a str-or-None argument
Truthy(x) == x \notin {None, ""}

\* The timestamp of a record that is dropped is never read; it is fixed to 1.
Records == [kind: {"ip"}, ts: 1..MaxTs] \cup [kind: {"nonip", "bad"}, ts: {1}]

Captures == UNION {[1..n -> Records] : n \in 0..MaxLen}

\* Exceptions the underlying reader can raise: ValueError ("read from closed
\* file", "invalid tcpdump header") or a dpkt.UnpackError (truncated header).
ReaderExcs == {"ValueError", "UnpackError"}

NoFault == [on |-> FALSE, at |-> 0, exc |-> "none"]

\* What the reader does during one run of a loop over it that starts at
\* position from: it works, or it raises.  at = -1: dpkt.pcap.Reader(f) itself
\* raises; at = k >= 0: the reader raises when asked for the record after the
\* k-th.
Faults(cap, from) ==
    {NoFault} \cup [on: {TRUE}, at: from..Len(cap), exc: ReaderExcs]

----------------------------------------------------------------------------
(* Pure helpers *)

\* dpkt.ethernet.Ethernet(packet) followed by the isinstance test
Ethernet(rec) ==
    CASE rec.kind = "bad" -> "UnpackError"
      [] rec.kind = "ip" -> "ip"
      [] OTHER -> "nonip"

\* the tuple (ip, timestamp) built from record i of cap
Elem(cap, i) == <<i, cap[i].ts>>

\* one line of stdout
Line(msg, a, b) == [msg |-> msg, a |-> a, b |-> b]

\* mutant: an element is put before the elements of equal timestamp
RECURSIVE InsertByTsUnstable(_, _)
InsertByTsUnstable(s, e) ==
    IF s = <<>> THEN <<e>>
    ELSE IF e[2] <= Head(s)[2] THEN <<e>> \o s
    ELSE <<Head(s)>> \o InsertByTsUnstable(Tail(s), e)

\* list.sort(key=lambda x: x[1]): insertion of e after every element whose
\* timestamp is not greater (the sort is stable)
RECURSIVE InsertByTs(_, _)
InsertByTs(s, e) ==
    IF s = <<>> THEN <<e>>
    ELSE IF e[2] < Head(s)[2] THEN <<e>> \o s
    ELSE <<Head(s)>> \o InsertByTs(Tail(s), e)

RECURSIVE SortByTs(_)
SortByTs(s) ==
    IF s = <<>> THEN <<>>
    ELSE InsertByTs(SortByTs(SubSeq(s, 1, Len(s) - 1)), s[Len(s)])

----------------------------------------------------------------------------
(* FlowKey resolver and FlowTable (pyplico.flowtable) *)

\* The addressing of an IP packet: addresses and ports are numbers, a packet
\* of a protocol without ports has the port fields 0.
AllHdrs ==
    [src: {1, 2}, dst: {1, 2}, sport: {1, 2}, dport: {1, 2},
     proto: {"TCP", "UDP"}]
    \cup [src: {1, 2}, dst: {1, 2}, sport: {0}, dport: {0}, proto: {"ICMP"}]

\* the packets of a capture that is fed to a flow table: a TCP packet, its
\* reply, and the same endpoints over UDP
PushedHdrs ==
    {[src |-> 1, dst |-> 2, sport |-> 1, dport |-> 2, proto |-> "TCP"],
     [src |-> 2, dst |-> 1, sport |-> 2, dport |-> 1, proto |-> "TCP"],
     [src |-> 1, dst |-> 2, sport |-> 1, dport |-> 2, proto |-> "UDP"]}

\* lexicographic order of (address, port) pairs
EndpointLeq(a, b) == a[1] < b[1] \/ (a[1] = b[1] /\ a[2] <= b[2])

\* mutant: the key keeps the direction of the packet
ResolveDirected(h) ==
    [addrA |-> h.src, portA |-> h.sport, addrB |-> h.dst, portB |-> h.dport,
     proto |-> h.proto]

\* FlowKey of a packet: the two endpoints in a fixed order, and the protocol
Resolve(h) ==
    IF EndpointLeq(<<h.src, h.sport>>, <<h.dst, h.dport>>)
    THEN [addrA |-> h.src, portA |-> h.sport, addrB |-> h.dst,
          portB |-> h.dport, proto |-> h.proto]
    ELSE [addrA |-> h.dst, portA |-> h.dport, addrB |-> h.src,
          portB |-> h.sport, proto |-> h.proto]

\* FlowTable.push on the sequence of FlowRecords, kept in the order the keys
\* were first seen: a new record for an unseen key, then the packet is
\* appended to the record of its key and counted
FlowTablePush(tbl, pkt) ==
    LET k == Resolve(pkt.hdr) IN
    IF \E i \in 1..Len(tbl) : tbl[i].key = k
    THEN [i \in 1..Len(tbl) |->
            IF tbl[i].key = k
            THEN [tbl[i] EXCEPT !.packets = Append(@, pkt), !.count = @ + 1]
            ELSE tbl[i]]
    ELSE Append(tbl, [key |-> k, packets |-> <<pkt>>, count |-> 1])

\* FlowTable.lookup: the record of the key, or the empty sequence for absent
Lookup(tbl, k) == SelectSeq(tbl, LAMBDA r : r.key = k)

----------------------------------------------------------------------------
(* read_packets *)

EmptyRead == [raised |-> "none", packets |-> <<>>, total |-> 0, skipped |-> 0,
              pos |-> 0]

\* mutant: the decode is not in a try block, UnpackError leaves read_packets
ReadPacketsBodyNoExcept(acc, cap, i) ==
    CASE Ethernet(cap[i]) = "UnpackError" -> [acc EXCEPT !.raised = "UnpackError"]
      [] Ethernet(cap[i]) = "nonip" ->
            [acc EXCEPT !.skipped = @ + 1, !.total = @ + 1]
      [] OTHER ->
            [acc EXCEPT !.packets = Append(@, Elem(cap, i)), !.total = @ + 1]

\* mutant: total is counted before the decode, so also for a record that
\* raises UnpackError
ReadPacketsBodyCountsFirst(acc, cap, i) ==
    CASE Ethernet(cap[i]) = "UnpackError" -> [acc EXCEPT !.total = @ + 1]
      [] Ethernet(cap[i]) = "nonip" ->
            [acc EXCEPT !.skipped = @ + 1, !.total = @ + 1]
      [] OTHER ->
            [acc EXCEPT !.packets = Append(@, Elem(cap, i)), !.total = @ + 1]

\* the body of the for loop of read_packets on record i
ReadPacketsBody(acc, cap, i) ==
    CASE Ethernet(cap[i]) = "UnpackError" -> acc
      [] Ethernet(cap[i]) = "nonip" ->
            [acc EXCEPT !.skipped = @ + 1, !.total = @ + 1]
      [] OTHER ->
            [acc EXCEPT !.packets = Append(@, Elem(cap, i)), !.total = @ + 1]

\* the for loop of read_packets from reader position pos on; an exception of
\* the reader is raised by the for statement, outside the try block
RECURSIVE ReadPacketsFrom(_, _, _, _)
ReadPacketsFrom(cap, flt, pos, acc) ==
    IF flt.on /\ flt.at = pos THEN [acc EXCEPT !.raised = flt.exc, !.pos = pos]
    ELSE IF pos = Len(cap) THEN [acc EXCEPT !.pos = pos]
    ELSE ReadPacketsFrom(cap, flt, pos + 1, ReadPacketsBody(acc, cap, pos + 1))

read_packets(cap, flt) ==
    IF flt.on /\ flt.at = -1 THEN [EmptyRead EXCEPT !.raised = flt.exc]
    ELSE ReadPacketsFrom(cap, flt, 0, EmptyRead)

----------------------------------------------------------------------------
(* read_itr *)

\* mutant: read_itr has no except ValueError clause
ReadItrNoExcept(e) == e

\* what the except clause of read_itr does with an exception of the reader:
\* ValueError is passed over and the generator returns, anything else leaves
\* the generator
ReadItrExcept(e) == IF e = "ValueError" THEN "return" ELSE e

\* mutant: the isinstance test is missing, every decoded frame is yielded
ReadItrBodyNoIpTest(rec) ==
    CASE Ethernet(rec) = "UnpackError" -> "print"
      [] OTHER -> "yield"

\* the body of the for loop of read_itr on one record: "continue" for a
\* record that is no IP packet, "print" for one that does not decode (the
\* message is printed when verbose, then continue), "yield" for an IP packet
ReadItrBody(rec) ==
    CASE Ethernet(rec) = "UnpackError" -> "print"
      [] Ethernet(rec) = "nonip" -> "continue"
      [] OTHER -> "yield"

\* the generator body from reader position pos up to its next suspension or
\* its end.  res: "yield" (the element is record pos), "return", or the
\* exception that leaves the generator
RECURSIVE ReadItrFrom(_, _, _, _, _)
ReadItrFrom(cap, flt, pos, verbose, printed) ==
    IF flt.on /\ flt.at = pos
    THEN [res |-> ReadItrExcept(flt.exc), pos |-> pos, printed |-> printed]
    ELSE IF pos = Len(cap)
    THEN [res |-> "return", pos |-> pos, printed |-> printed]
    ELSE CASE ReadItrBody(cap[pos + 1]) = "print" ->
                ReadItrFrom(cap, flt, pos + 1, verbose,
                    IF verbose
                    THEN Append(printed, Line("Failed to Unpack", 0, 0))
                    ELSE printed)
           [] ReadItrBody(cap[pos + 1]) = "continue" ->
                ReadItrFrom(cap, flt, pos + 1, verbose, printed)
           [] OTHER -> [res |-> "yield", pos |-> pos + 1, printed |-> printed]

\* mutant: every next() starts again at the first record
ReadItrResumeRestart(cap, flt, g, pos, verbose) ==
    IF g = "created" /\ flt.on /\ flt.at = -1
    THEN [res |-> flt.exc, pos |-> pos, printed |-> <<>>]
    ELSE ReadItrFrom(cap, flt, 0, verbose, <<>>)

\* one next() on a generator that has not finished
ReadItrResume(cap, flt, g, pos, verbose) ==
    IF g = "created" /\ flt.on /\ flt.at = -1
    THEN [res |-> flt.exc, pos |-> pos, printed |-> <<>>]
    ELSE ReadItrFrom(cap, flt, pos, verbose, <<>>)

----------------------------------------------------------------------------
(* The constructor *)

DefaultArgs == [file |-> None, interface |-> None, to_itr |-> TRUE,
                to_list |-> FALSE, to_ft |-> FALSE, sort |-> FALSE,
                verbose |-> FALSE]

NoFt == [created |-> FALSE, pushes |-> <<>>, hdrs |-> <<>>, table |-> <<>>]

Init ==
    /\ pc = "new"
    /\ args = DefaultArgs
    /\ exc = "none"
    /\ fstate = "unopened"
    /\ capture = <<>>
    /\ fault = NoFault
    /\ rpos = 0
    /\ hasItr = FALSE
    /\ gen = "none"
    /\ yielded = <<>>
    /\ lastNext = "none"
    /\ hasPackets = FALSE
    /\ packets = <<>>
    /\ total = 0
    /\ skipped = 0
    /\ out = <<>>
    /\ ft = NoFt
    /\ lastGet = "none"

\* mutant: the test for both given is missing
ConfigErrorNeitherOnly(a) == ~Truthy(a.file) /\ ~Truthy(a.interface)

\* the two tests that raise ValueError
ConfigError(a) ==
    \/ ~Truthy(a.file) /\ ~Truthy(a.interface)
    \/ Truthy(a.file) /\ Truthy(a.interface)

\* raise ValueError: neither or both of file and interface
ConstructInvalid(a) ==
    /\ pc = "new"
    /\ ConfigError(a)
    /\ args' = a
    /\ pc' = "raised"
    /\ exc' = "ValueError"
    /\ UNCHANGED <<fstate, capture, fault, rpos, hasItr, gen, yielded, lastNext,
                   hasPackets, packets, total, skipped, out, ft, lastGet>>

\* mutant: open is not wrapped in try/except, its own error leaves the
\* constructor (PermissionError for a file that is there but unreadable)
ConstructOpenErrorRaw(a) ==
    /\ pc = "new"
    /\ ~ConfigError(a)
    /\ Truthy(a.file)
    /\ args' = a
    /\ pc' = "raised"
    /\ \E e \in {"FileNotFoundError", "PermissionError"} : exc' = e
    /\ UNCHANGED <<fstate, capture, fault, rpos, hasItr, gen, yielded, lastNext,
                   hasPackets, packets, total, skipped, out, ft, lastGet>>

\* open(file, 'rb') fails: raise FileNotFoundError
ConstructNotFound(a) ==
    /\ pc = "new"
    /\ ~ConfigError(a)
    /\ Truthy(a.file)
    /\ args' = a
    /\ pc' = "raised"
    /\ exc' = "FileNotFoundError"
    /\ UNCHANGED <<fstate, capture, fault, rpos, hasItr, gen, yielded, lastNext,
                   hasPackets, packets, total, skipped, out, ft, lastGet>>

\* mutant: the test for to_list comes first
AfterOpenListFirst(a) == IF a.to_list THEN "read_packets" ELSE "ready"

\* mutant: without to_itr the packets are read whatever to_list is
AfterOpenDefaultList(a) == IF a.to_itr THEN "ready" ELSE "read_packets"

\* where the constructor goes once the file is open
AfterOpen(a) ==
    IF a.to_itr THEN "ready" ELSE IF a.to_list THEN "read_packets" ELSE "ready"

\* the file opens; with to_itr the generator is created and the constructor
\* returns, with to_list alone it goes on to read_packets
ConstructFile(a, cap) ==
    /\ pc = "new"
    /\ ~ConfigError(a)
    /\ Truthy(a.file)
    /\ args' = a
    /\ fstate' = "open"
    /\ capture' = cap
    /\ hasItr' = a.to_itr
    /\ gen' = IF a.to_itr THEN "created" ELSE "none"
    /\ pc' = AfterOpen(a)
    /\ UNCHANGED <<exc, fault, rpos, yielded, lastNext, hasPackets, packets,
                   total, skipped, out, ft, lastGet>>

\* mutant: the live capture branch is an empty stub, the constructor returns
ConstructInterfaceStub(a) ==
    /\ pc = "new"
    /\ ~ConfigError(a)
    /\ ~Truthy(a.file)
    /\ Truthy(a.interface)
    /\ args' = a
    /\ pc' = "ready"
    /\ UNCHANGED <<exc, fstate, capture, fault, rpos, hasItr, gen, yielded,
                   lastNext, hasPackets, packets, total, skipped, out, ft,
                   lastGet>>

\* only interface given: raise NotImplementedError
ConstructInterface(a) ==
    /\ pc = "new"
    /\ ~ConfigError(a)
    /\ ~Truthy(a.file)
    /\ Truthy(a.interface)
    /\ args' = a
    /\ pc' = "raised"
    /\ exc' = "NotImplementedError"
    /\ UNCHANGED <<fstate, capture, fault, rpos, hasItr, gen, yielded, lastNext,
                   hasPackets, packets, total, skipped, out, ft, lastGet>>

\* self.packets = packets = self.read_packets(f)
ReadPackets ==
    /\ pc = "read_packets"
    /\ \E flt \in Faults(capture, -1) :
       LET r == read_packets(capture, flt) IN
        /\ fault' = flt
        /\ rpos' = r.pos
        /\ IF r.raised # "none"
           THEN /\ pc' = "raised"
                /\ exc' = r.raised
                /\ UNCHANGED <<hasPackets, packets, total, skipped, out>>
           ELSE /\ pc' = "close"
                /\ hasPackets' = TRUE
                /\ packets' = r.packets
                /\ total' = r.total
                /\ skipped' = r.skipped
                /\ out' = IF args.verbose
                          THEN Append(out, Line("Total", r.total,
                                                r.total - r.skipped))
                          ELSE out
                /\ exc' = exc
    /\ UNCHANGED <<args, fstate, capture, hasItr, gen, yielded, lastNext, ft,
                   lastGet>>

\* f.close()
CloseFile ==
    /\ pc = "close"
    /\ fstate' = "closed"
    /\ pc' = "sort"
    /\ UNCHANGED <<args, exc, capture, fault, rpos, hasItr, gen, yielded,
                   lastNext, hasPackets, packets, total, skipped, out, ft,
                   lastGet>>

\* mutant: the list is sorted only when sort is set
SortedIfSortOnly(a, ps) == IF a.sort THEN SortByTs(ps) ELSE ps

\* if self.sort or self.to_ft: self.packets.sort(key=lambda x: x[1])
SortedIfAsked(a, ps) == IF a.sort \/ a.to_ft THEN SortByTs(ps) ELSE ps

SortPackets ==
    /\ pc = "sort"
    /\ packets' = SortedIfAsked(args, packets)
    /\ pc' = IF args.to_ft THEN "ft" ELSE "ready"
    /\ UNCHANGED <<args, exc, fstate, capture, fault, rpos, hasItr, gen,
                   yielded, lastNext, hasPackets, total, skipped, out, ft,
                   lastGet>>

\* if to_ft: self.ft = FlowTable()
CreateFlowTable ==
    /\ pc = "ft"
    /\ ft' = [NoFt EXCEPT !.created = TRUE]
    /\ pc' = "push"
    /\ UNCHANGED <<args, exc, fstate, capture, fault, rpos, hasItr, gen,
                   yielded, lastNext, hasPackets, packets, total, skipped, out,
                   lastGet>>

\* the table after self.ft.push(packet[0]) for the list element e, whose
\* packet has the header fields h
PushInto(t, e, h) ==
    [t EXCEPT !.pushes = Append(@, e[1]),
              !.hdrs = Append(@, h),
              !.table = FlowTablePush(@, [id |-> e[1], hdr |-> h])]

\* one iteration of: for packet in self.packets: self.ft.push(packet[0]).
\* The header fields of a packet are read by push and by nothing before it,
\* so they are drawn here.
Push ==
    /\ pc = "push"
    /\ Len(ft.pushes) < Len(packets)
    /\ \E h \in PushedHdrs :
            ft' = PushInto(ft, packets[Len(ft.pushes) + 1], h)
    /\ UNCHANGED <<pc, args, exc, fstate, capture, fault, rpos, hasItr, gen,
                   yielded, lastNext, hasPackets, packets, total, skipped, out,
                   lastGet>>

\* mutant: the push loop can end before the end of the list
PushDoneEarly ==
    /\ pc = "push"
    /\ pc' = "ready"
    /\ UNCHANGED <<args, exc, fstate, capture, fault, rpos, hasItr, gen,
                   yielded, lastNext, hasPackets, packets, total, skipped, out,
                   ft, lastGet>>

\* the for loop over self.packets ends and the constructor returns
PushDone ==
    /\ pc = "push"
    /\ Len(ft.pushes) = Len(packets)
    /\ pc' = "ready"
    /\ UNCHANGED <<args, exc, fstate, capture, fault, rpos, hasItr, gen,
                   yielded, lastNext, hasPackets, packets, total, skipped, out,
                   ft, lastGet>>

----------------------------------------------------------------------------
(* The constructed object *)

\* the first thing the generator asks of the reader when it is resumed: the
\* construction of the reader on the first next(), the record after the last
\* one read afterwards
ResumeAt(g, pos) == IF g = "created" THEN -1 ELSE pos

\* what next() gives the consumer for a result of the generator body
NextOutcome(res) ==
    CASE res = "yield" -> "item"
      [] res = "return" -> "StopIteration"
      [] OTHER -> res

\* mutant: the first next() reads the whole capture ahead
NextItemReadAhead ==
    /\ pc = "ready"
    /\ hasItr
    /\ IF gen \in {"finished", "closed"}
       THEN /\ lastNext' = "StopIteration"
            /\ UNCHANGED <<gen, fault, rpos, yielded, out>>
       ELSE \E flt \in Faults(capture, ResumeAt(gen, rpos)) :
            LET r == ReadItrResume(capture, flt, gen, rpos, args.verbose) IN
            /\ fault' = IF flt.on /\ r.res # "yield" THEN flt ELSE fault
            /\ gen' = IF r.res = "yield" THEN "suspended" ELSE "finished"
            /\ rpos' = Len(capture)
            /\ yielded' = IF r.res = "yield"
                          THEN Append(yielded, Elem(capture, r.pos))
                          ELSE yielded
            /\ out' = out \o r.printed
            /\ lastNext' = NextOutcome(r.res)
    /\ UNCHANGED <<pc, args, exc, fstate, capture, hasItr, hasPackets, packets,
                   total, skipped, ft, lastGet>>

\* the consumer calls next() on the generator self.packets_itr
NextItem ==
    /\ pc = "ready"
    /\ hasItr
    /\ IF gen \in {"finished", "closed"}
       THEN /\ lastNext' = "StopIteration"
            /\ UNCHANGED <<gen, fault, rpos, yielded, out>>
       ELSE \E flt \in Faults(capture, ResumeAt(gen, rpos)) :
            LET r == ReadItrResume(capture, flt, gen, rpos, args.verbose) IN
            /\ fault' = IF flt.on /\ r.res # "yield" THEN flt ELSE fault
            /\ gen' = IF r.res = "yield" THEN "suspended" ELSE "finished"
            /\ rpos' = r.pos
            /\ yielded' = IF r.res = "yield"
                          THEN Append(yielded, Elem(capture, r.pos))
                          ELSE yielded
            /\ out' = out \o r.printed
            /\ lastNext' = NextOutcome(r.res)
    /\ UNCHANGED <<pc, args, exc, fstate, capture, hasItr, hasPackets, packets,
                   total, skipped, ft, lastGet>>

\* the consumer gives the sequence up before its end: generator.close(), or
\* the last reference to the generator is dropped
Abandon ==
    /\ pc = "ready"
    /\ hasItr
    /\ gen \in {"created", "suspended"}
    /\ gen' = "closed"
    /\ UNCHANGED <<pc, args, exc, fstate, capture, fault, rpos, hasItr,
                   yielded, lastNext, hasPackets, packets, total, skipped, out,
                   ft, lastGet>>

\* mutant: a missing attribute gives None instead of an exception
get_itrNoneIfMissing(has, g) == IF ~has THEN "None" ELSE "generator"

\* the result of get_itr: the attribute is missing (AttributeError, turned
\* into ValueError), or it is a generator, or it is something else
get_itr(has, g) ==
    IF ~has THEN "ValueError"
    ELSE IF g \in {"created", "suspended", "finished", "closed"}
    THEN "generator"
    ELSE "None"

GetItr ==
    /\ pc = "ready"
    /\ lastGet' = get_itr(hasItr, gen)
    /\ UNCHANGED <<pc, args, exc, fstate, capture, fault, rpos, hasItr, gen,
                   yielded, lastNext, hasPackets, packets, total, skipped, out,
                   ft>>

\* the result of get_flow_table: self.ft, None unless a FlowTable was made
get_flow_table(t) == IF t.created THEN "FlowTable" ELSE "None"

----------------------------------------------------------------------------

Construct ==
    /\ pc = "new"
    /\ \E a \in Args :
        \/ ConstructInvalid(a)
        \/ ConstructNotFound(a)
        \/ \E cap \in Captures : ConstructFile(a, cap)
        \/ ConstructInterface(a)

Next ==
    \/ Construct
    \/ ReadPackets
    \/ CloseFile
    \/ SortPackets
    \/ CreateFlowTable
    \/ Push
    \/ PushDone
    \/ NextItem
    \/ Abandon
    \/ GetItr

Spec == Init /\ [][Next]_vars

----------------------------------------------------------------------------
(* A flow table on its own, fed with any packets *)

FtInit ==
    /\ pc = "table"
    /\ args = DefaultArgs
    /\ exc = "none"
    /\ fstate = "unopened"
    /\ capture = <<>>
    /\ fault = NoFault
    /\ rpos = 0
    /\ hasItr = FALSE
    /\ gen = "none"
    /\ yielded = <<>>
    /\ lastNext = "none"
    /\ hasPackets = FALSE
    /\ packets = <<>>
    /\ total = 0
    /\ skipped = 0
    /\ out = <<>>
    /\ ft = [NoFt EXCEPT !.created = TRUE]
    /\ lastGet = "none"

\* push of any packet; the n-th packet pushed is identified by n
FtPush ==
    /\ pc = "table"
    /\ Len(ft.pushes) < MaxPush
    /\ \E h \in AllHdrs :
            ft' = PushInto(ft, <<Len(ft.pushes) + 1, 1>>, h)
    /\ UNCHANGED <<pc, args, exc, fstate, capture, fault, rpos, hasItr, gen,
                   yielded, lastNext, hasPackets, packets, total, skipped, out,
                   lastGet>>

FlowInit == Init \/ FtInit

FlowNext == Next \/ FtPush

\* the reader, and beside it the flow table on its own
FlowSpec == FlowInit /\ [][FlowNext]_vars

----------------------------------------------------------------------------
(* Vocabulary of the properties *)

Materialized == ~args.to_itr /\ args.to_list
Streaming == args.to_itr

\* read_packets has returned
ReadDone == pc \in {"close", "sort", "ft", "push", "ready"} /\ hasPackets

\* the number of records of cap of kind k
NumKind(cap, k) == Cardinality({i \in 1..Len(cap) : cap[i].kind = k})

\* the records of cap that decode to an IP packet, in capture order, as
\* (ip, timestamp) tuples
IpElems(cap) ==
    LET idx == SelectSeq([i \in 1..Len(cap) |-> i],
                         LAMBDA i : cap[i].kind = "ip")
    IN [k \in 1..Len(idx) |-> <<idx[k], cap[idx[k]].ts>>]

Range(s) == {s[k] : k \in 1..Len(s)}

\* the exit paths of a read: the streaming sequence has ended (by
\* exhaustion, by an absorbed or propagated failure of the reader, or because
\* the consumer gave it up), or the constructor of a materialized reader has
\* returned or raised after opening the file
ReadOver ==
    \/ Streaming /\ pc = "ready" /\ gen \in {"finished", "closed"}
    \/ Materialized /\ pc \in {"ready", "raised"} /\ fstate # "unopened"

----------------------------------------------------------------------------
(* C1 *)

\* C1: in materialized mode, once read_packets has returned,
\* skipped + used = total, where used is the length of the returned list.
C1_SkippedPlusUsedIsTotal ==
    ReadDone => skipped + Len(packets) = total

\* a read that met all three kinds of record
C1_Witness ==
    /\ ReadDone
    /\ NumKind(capture, "bad") > 0
    /\ skipped > 0
    /\ Len(packets) > 0

(* C2 *)

\* C2: in materialized mode every record of the capture is counted in total
\* and every record that is non-IP or malformed is counted in skipped.
C2_EveryRecordCounted ==
    ReadDone =>
        /\ total = Len(capture)
        /\ skipped = NumKind(capture, "nonip") + NumKind(capture, "bad")

(* C3 *)

BothSet == Truthy(args.file) /\ Truthy(args.interface)
NeitherSet == ~Truthy(args.file) /\ ~Truthy(args.interface)

\* C3: a constructor called with both file and interface, or with neither,
\* raises ValueError whatever the other flags are, and leaves nothing behind:
\* no opened file, no generator, no packet list, no flow table.  (An argument
\* counts as set when it is neither None nor the empty string.)
C3_ConfigErrorAtConstruction ==
    (pc # "new" /\ (BothSet \/ NeitherSet)) =>
        /\ pc = "raised"
        /\ exc = "ValueError"
        /\ fstate = "unopened"
        /\ rpos = 0
        /\ ~hasItr /\ gen = "none"
        /\ ~hasPackets /\ packets = <<>>
        /\ ~ft.created

\* both given, with the flags of a materialized read with a flow table
C3_Witness ==
    /\ pc = "raised"
    /\ BothSet
    /\ ~args.to_itr /\ args.to_list /\ args.to_ft
    /\ exc = "ValueError"

(* C4 *)

\* C4: the file is closed on every exit path of a read: no state in which
\* the read is over leaves the opened capture file unclosed.
C4_FileReleased ==
    ReadOver => fstate = "closed"

----------------------------------------------------------------------------
(* C5 *)

\* C5: on the same capture, the streaming sequence pulled to exhaustion and
\* the list of a materialized read without sort and without flow table are
\* the same sequence: the records that decode to an IP packet, in capture
\* order.
C5_SameSequence ==
    /\ (Streaming /\ gen = "finished" /\ ~fault.on) =>
            /\ yielded = IpElems(capture)
            /\ yielded = read_packets(capture, NoFault).packets
    /\ (Materialized /\ ReadDone /\ ~args.sort /\ ~args.to_ft) =>
            packets = IpElems(capture)

\* a streaming sequence pulled to its end over a capture with two IP packets
\* and a record that is dropped
C5_Witness ==
    /\ Streaming /\ gen = "finished" /\ ~fault.on
    /\ lastNext = "StopIteration"
    /\ Len(yielded) = 2
    /\ Len(capture) = 3

(* C6 *)

\* C6: a record that does not decode or is no IP packet never raises to the
\* caller and never ends the read: without a failure of the reader itself no
\* exception leaves the constructor or the generator, the read goes to the
\* end of the capture, and every IP record the reader has delivered is in
\* the output, also when dropped records come before it.
C6_NoFrameAborts ==
    /\ (fstate # "unopened" /\ ~fault.on) =>
            (exc = "none" /\ lastNext \notin ReaderExcs)
    /\ (gen = "finished" /\ ~fault.on) => rpos = Len(capture)
    /\ hasItr =>
            \A i \in 1..rpos :
                capture[i].kind = "ip" => Elem(capture, i) \in Range(yielded)
    /\ ReadDone =>
            /\ rpos = Len(capture)
            /\ \A i \in 1..Len(capture) :
                capture[i].kind = "ip" => Elem(capture, i) \in Range(packets)

\* a materialized read that delivered the IP packet behind a record that
\* does not decode and one that is no IP packet
C6_Witness ==
    /\ ReadDone
    /\ Len(capture) = 3
    /\ capture[1].kind = "bad"
    /\ capture[2].kind = "nonip"
    /\ packets = <<Elem(capture, 3)>>

\* the same in streaming mode
C6_WitnessStreaming ==
    /\ hasItr
    /\ Len(capture) = 3
    /\ capture[1].kind = "bad"
    /\ capture[2].kind = "nonip"
    /\ yielded = <<Elem(capture, 3)>>

(* C7 *)

IsPrefix(s, t) == Len(s) <= Len(t) /\ s = SubSeq(t, 1, Len(s))

\* a step in which the reader of the generator fails while it iterates over
\* the records, with an exception in excs (only a pull makes the reader of
\* the generator run)
ReaderFailsOnPull(excs) ==
    /\ hasItr
    /\ ~fault.on /\ fault'.on
    /\ fault'.at >= 0 /\ fault'.exc \in excs

\* a pull that meets such a failure ends the sequence as a normal end: the
\* consumer gets StopIteration, what was yielded is unchanged and is a prefix
\* of the capture-order sequence; after the end no step yields anything and
\* all a pull can give is StopIteration
AbsorbedOnPull(excs) ==
    /\ ReaderFailsOnPull(excs) =>
            /\ lastNext' = "StopIteration"
            /\ gen' = "finished"
            /\ yielded' = yielded
            /\ IsPrefix(yielded, IpElems(capture))
    /\ gen \in {"finished", "closed"} =>
            /\ gen' = gen
            /\ lastNext' \in {lastNext, "StopIteration"}
            /\ yielded' = yielded

\* C7 as claimed: any failure of the reader while it iterates over the
\* records is absorbed.
C7_AnyFailureAbsorbed == [][AbsorbedOnPull(ReaderExcs)]_vars

\* C7 as amended: a failure of the reader raised as ValueError while it
\* iterates over the records is absorbed.
C7_ValueErrorAbsorbed == [][AbsorbedOnPull({"ValueError"})]_vars

\* the reader failed with ValueError behind a yielded packet and a dropped
\* record, with records left unread, and the consumer saw a normal end
C7_Witness ==
    /\ hasItr /\ gen = "finished"
    /\ fault.on /\ fault.exc = "ValueError"
    /\ fault.at = 2 /\ rpos = 2 /\ Len(capture) = 3
    /\ capture[2].kind = "nonip"
    /\ Len(yielded) = 1
    /\ lastNext = "StopIteration"

(* C8 *)

C8_WitnessStreaming ==
    /\ Streaming /\ pc = "ready"
    /\ lastGet = "generator"

(* C9 *)

\* ascending timestamps, elements of equal timestamp in capture order
SortedStable(ps) ==
    \A j, k \in 1..Len(ps) :
        j < k => \/ ps[j][2] < ps[k][2]
                 \/ ps[j][2] = ps[k][2] /\ ps[j][1] < ps[k][1]

Permutation(s, t) == Len(s) = Len(t) /\ Range(s) = Range(t)

\* the constructor is past the sort
SortDone == pc \in {"ft", "push", "ready"} /\ hasPackets

\* C9: in materialized mode with sort or to_ft set the exposed list is a
\* permutation of the decoded IP packets in ascending timestamp order, ties
\* in capture order; with neither set it is in capture order.
C9_SortedWhenAsked ==
    SortDone =>
        IF args.sort \/ args.to_ft
        THEN Permutation(packets, IpElems(capture)) /\ SortedStable(packets)
        ELSE packets = IpElems(capture)

\* to_ft alone reordered a list that has a tie
C9_Witness ==
    /\ SortDone /\ pc = "ready"
    /\ args.to_ft /\ ~args.sort
    /\ packets # IpElems(capture)
    /\ Len(packets) = 3
    /\ packets[1][2] = packets[2][2]

(* C10 *)

\* C10: with a flow table asked for in materialized mode, a push happens
\* only after the whole capture was read, the file closed and the list
\* sorted; the pushes are the elements of the sorted list, each once, in list
\* order, as many as the list is long when the constructor returns, and with
\* non-decreasing timestamps.
C10_PushAfterSortedRead ==
    /\ (pc = "push" \/ ft.created) =>
            /\ Materialized /\ args.to_ft
            /\ ReadDone /\ rpos = Len(capture)
            /\ fstate = "closed"
            /\ SortedStable(packets)
    /\ Len(ft.pushes) <= Len(packets)
    /\ \A k \in 1..Len(ft.pushes) : ft.pushes[k] = packets[k][1]
    /\ \A k \in 1..(Len(ft.pushes) - 1) :
            capture[ft.pushes[k]].ts <= capture[ft.pushes[k + 1]].ts
    /\ (pc = "ready" /\ Materialized /\ args.to_ft) =>
            /\ ft.created
            /\ Len(ft.pushes) = Len(packets)

\* all three packets of a list that the sort reordered were pushed
C10_Witness ==
    /\ pc = "ready" /\ ft.created
    /\ Len(ft.pushes) = 3
    /\ packets # IpElems(capture)

----------------------------------------------------------------------------
(* C11 *)

FileOnly == Truthy(args.file) /\ ~Truthy(args.interface)
InterfaceOnly == ~Truthy(args.file) /\ Truthy(args.interface)

\* nothing was read and nothing was built
NothingCreated ==
    /\ rpos = 0 /\ capture = <<>>
    /\ ~hasItr /\ gen = "none" /\ yielded = <<>>
    /\ ~hasPackets /\ packets = <<>>
    /\ ~ft.created /\ ft.pushes = <<>>

\* C11: a constructor called with a file alone whose file did not open has
\* raised FileNotFoundError, in either mode, with no record read and no
\* generator, packet list or flow table created; and nothing else raises
\* that error.
C11_SourceNotFound ==
    /\ (pc # "new" /\ FileOnly /\ fstate = "unopened") =>
            /\ pc = "raised"
            /\ exc = "FileNotFoundError"
            /\ NothingCreated
    /\ exc = "FileNotFoundError" => (FileOnly /\ fstate = "unopened")

\* the file of a materialized reader with a flow table did not open
C11_Witness ==
    /\ pc = "raised" /\ exc = "FileNotFoundError"
    /\ FileOnly
    /\ Materialized /\ args.to_ft

(* C12 *)

----------------------------------------------------------------------------
(* C13 *)

\* the n-th packet pushed
Pushed(n) == [id |-> ft.pushes[n], hdr |-> ft.hdrs[n]]

PushedSeq == [n \in 1..Len(ft.pushes) |-> Pushed(n)]

RECURSIVE SumCounts(_)
SumCounts(tbl) ==
    IF tbl = <<>> THEN 0 ELSE Head(tbl).count + SumCounts(Tail(tbl))

\* the records that hold the packet
RecordsHolding(pkt) ==
    {i \in 1..Len(ft.table) : pkt \in Range(ft.table[i].packets)}

\* C13: after any pushes every pushed packet is in exactly one FlowRecord,
\* the counts of the records sum to the number of pushes, every pushed packet
\* is found by lookup on its resolved key, and a record holds its packets in
\* the order they were pushed; when the constructor of a reader with to_ft has
\* returned, the sum is the length of the materialized list.
C13_TableHoldsEveryPush ==
    /\ \A n \in 1..Len(ft.pushes) :
            /\ Cardinality(RecordsHolding(Pushed(n))) = 1
            /\ LET found == Lookup(ft.table, Resolve(ft.hdrs[n])) IN
                /\ Len(found) = 1
                /\ Pushed(n) \in Range(found[1].packets)
    /\ \A i \in 1..Len(ft.table) :
            /\ ft.table[i].count = Len(ft.table[i].packets)
            /\ ft.table[i].packets =
                    SelectSeq(PushedSeq,
                              LAMBDA p : Resolve(p.hdr) = ft.table[i].key)
    /\ SumCounts(ft.table) = Len(ft.pushes)
    /\ (pc = "ready" /\ Materialized /\ args.to_ft) =>
            SumCounts(ft.table) = Len(packets)

\* the constructor of a reader returned with three packets in two flows
C13_Witness ==
    /\ pc = "ready" /\ Materialized /\ args.to_ft
    /\ Len(packets) = 3
    /\ Len(ft.table) = 2
    /\ SumCounts(ft.table) = 3

(* C14 *)

\* the packet with source and destination endpoints swapped
Swap(h) == [src |-> h.dst, dst |-> h.src, sport |-> h.dport,
            dport |-> h.sport, proto |-> h.proto]

SameEndpoints(g, h) ==
    /\ g.src = h.src /\ g.dst = h.dst
    /\ g.sport = h.sport /\ g.dport = h.dport

\* C14: two pushed packets that differ only by swapped endpoints have the
\* same key and are in the same FlowRecord, so a TCP packet and its reply
\* pushed into an empty table give one record of count 2; two pushed packets
\* with the same endpoints and different protocols have different keys and
\* are in different records.
C14_KeyIgnoresDirection ==
    /\ \A n, m \in 1..Len(ft.pushes) :
            /\ ft.hdrs[m] = Swap(ft.hdrs[n]) =>
                    /\ Resolve(ft.hdrs[m]) = Resolve(ft.hdrs[n])
                    /\ RecordsHolding(Pushed(m)) = RecordsHolding(Pushed(n))
            /\ (SameEndpoints(ft.hdrs[m], ft.hdrs[n])
                    /\ ft.hdrs[m].proto # ft.hdrs[n].proto) =>
                    /\ Resolve(ft.hdrs[m]) # Resolve(ft.hdrs[n])
                    /\ RecordsHolding(Pushed(m)) \cap RecordsHolding(Pushed(n))
                            = {}
    /\ (Len(ft.hdrs) = 2 /\ ft.hdrs[1].proto = "TCP"
            /\ ft.hdrs[2] = Swap(ft.hdrs[1])) =>
            (Len(ft.table) = 1 /\ ft.table[1].count = 2)

\* A -> B and B -> A over TCP, ports swapped, pushed into an empty table
C14_Witness ==
    /\ pc = "table"
    /\ ft.hdrs = <<[src |-> 1, dst |-> 2, sport |-> 1, dport |-> 2,
                    proto |-> "TCP"],
                   [src |-> 2, dst |-> 1, sport |-> 2, dport |-> 1,
                    proto |-> "TCP"]>>
    /\ Len(ft.table) = 1
    /\ ft.table[1].count = 2

----------------------------------------------------------------------------
(* C15 *)

\* the positions in the capture of the elements of s
Positions(s) == [k \in 1..Len(s) |-> s[k][1]]

StrictlyIncreasing(s) == \A j, k \in 1..Len(s) : j < k => s[j] < s[k]

\* the generator can give nothing more
Exhausted == gen \in {"finished", "closed"}

\* C15: the streaming sequence is single-pass: get_itr hands out the one
\* generator and never restarts it, what was yielded is never taken back,
\* the packets yielded to all the consumers together are IP packets of the
\* capture at strictly increasing positions (each at most once, in capture
\* order), and once the generator is exhausted nothing more is yielded and
\* it stays exhausted.
C15_SinglePass ==
    [][ /\ IsPrefix(yielded, yielded')
        /\ StrictlyIncreasing(Positions(yielded'))
        /\ \A k \in 1..Len(yielded') :
                /\ yielded'[k] = Elem(capture', yielded'[k][1])
                /\ capture'[yielded'[k][1]].kind = "ip"
        /\ lastGet' # lastGet =>
                (gen' = gen /\ rpos' = rpos /\ yielded' = yielded)
        /\ Exhausted => (yielded' = yielded /\ gen' = gen /\ rpos' = rpos)
      ]_vars

\* two packets were yielded, the sequence ended, and get_itr was called
C15_Witness ==
    /\ Streaming /\ gen = "finished" /\ ~fault.on
    /\ Len(yielded) >= 2
    /\ lastNext = "StopIteration"
    /\ lastGet = "generator"

(* C16 *)

\* the position of the last packet yielded, 0 before the first
LastYielded == IF yielded = <<>> THEN 0 ELSE yielded[Len(yielded)][1]

\* the records between positions from and to, both excluded
Between(from, to) == {i \in 1..Len(capture) : from < i /\ i < to}

\* what has been read of the capture of a streaming reader: nothing before
\* the first pull, the records up to the last packet yielded while the
\* sequence goes on, and the whole capture (or the records before the one the
\* reader failed at) once it has ended by itself
LazyRead ==
    hasItr =>
        /\ gen = "created" => (rpos = 0 /\ yielded = <<>>)
        /\ gen \in {"created", "suspended", "closed"} => rpos = LastYielded
        /\ gen = "finished" =>
                /\ LastYielded <= rpos /\ rpos <= Len(capture)
                /\ ~fault.on => rpos = Len(capture)
                /\ \A i \in Between(LastYielded, rpos + 1) :
                        capture[i].kind # "ip"

\* C16: streaming is lazy: construction reads no record; the records of a
\* reader built with to_itr are read only by a pull on a generator that has not
\* ended, and a pull reads the
\* records after the last one read up to and including the next IP record,
\* which it yields, or up to the end of the capture; so the records read never
\* go beyond the last packet yielded, unless the sequence is exhausted.
C16_Lazy ==
    [][ /\ LazyRead'
        /\ pc = "new" => rpos' = 0
        /\ (args'.to_itr /\ rpos' # rpos) =>
                /\ hasItr /\ gen \in {"created", "suspended"}
                /\ rpos < rpos'
                /\ \A i \in Between(rpos, rpos') : capture[i].kind # "ip"
                /\ gen' = "suspended" =>
                        /\ capture[rpos'].kind = "ip"
                        /\ yielded' = Append(yielded, Elem(capture, rpos'))
                /\ gen' # "suspended" =>
                        (gen' = "finished" /\ yielded' = yielded)
      ]_vars

\* a pull skipped a record and yielded the packet after it, and a record is
\* left unread
C16_Witness ==
    /\ Streaming /\ gen = "suspended"
    /\ Len(yielded) = 1
    /\ rpos = 2
    /\ capture[1].kind # "ip"
    /\ Len(capture) = MaxLen

(* C17 *)

\* C17: to_itr wins over the other flags: with to_itr there is never a packet
\* list, a count of read_packets or a flow table, get_flow_table gives None,
\* and the packets come in capture order, unsorted; get_flow_table gives a
\* table only when to_itr is false and to_list and to_ft are true, and then
\* always once the constructor has returned.
C17_ToItrPrecedence ==
    /\ (pc # "new" /\ Streaming) =>
            /\ ~hasPackets /\ packets = <<>> /\ total = 0
            /\ ~ft.created /\ get_flow_table(ft) = "None"
            /\ pc \in {"ready", "raised"}
            /\ IsPrefix(yielded, IpElems(capture))
    /\ get_flow_table(ft) = "FlowTable" =>
            (~args.to_itr /\ args.to_list /\ args.to_ft)
    /\ pc = "ready" =>
            (get_flow_table(ft) = "FlowTable"
                <=> (~args.to_itr /\ args.to_list /\ args.to_ft))

\* every flag is set, and two packets were yielded against their timestamps
C17_Witness ==
    /\ pc = "ready"
    /\ args.to_itr /\ args.to_list /\ args.to_ft /\ args.sort
    /\ Len(yielded) = 2
    /\ yielded[1][2] > yielded[2][2]
    /\ get_flow_table(ft) = "None"

\* a table is handed out by a reader built without to_itr
C17_WitnessTable ==
    /\ pc = "ready"
    /\ ~args.to_itr /\ args.to_list /\ args.to_ft
    /\ get_flow_table(ft) = "FlowTable"
    /\ Len(ft.pushes) = 2

(* C18 *)

====
